---- MODULE Spec2Model ----
(***************************************************************************)
(* BlivetGuiSpoke (pyanaconda/ui/gui/spokes/blivet_gui.py): the spoke's    *)
(* state, its lifecycle callbacks and its two event handlers.              *)
(*                                                                         *)
(* A storage model is the record of the five attributes _do_check copies:  *)
(* devices, actions, hidden, names, roots.  Python assignment copies       *)
(* references, so after _do_check the attributes of self.storage are the   *)
(* very objects of the playground: aliased[f] says so for attribute f.     *)
(* Strings are sequences of characters; None is <<>> and a value v that    *)
(* may be None is <<v>>.                                                   *)
(***************************************************************************)
EXTENDS Integers, Sequences, FiniteSets, TLC

VARIABLES
    screen,                 \* where the user is: the spoke's place in the hub/spoke flow
    storage,                \* self.storage (the five attributes)
    storage_playground,     \* self._storage_playground: None or a storage model
    aliased,                \* per attribute: self.storage's object is the playground's
    error,                  \* self._error: None or a string
    back_already_clicked,   \* self._back_already_clicked
    errors,                 \* StorageChecker.errors
    warnings,               \* StorageChecker.warnings
    info_bar,               \* the info bar: "none", or the kind of warning set
    bootDrive,              \* self.data.bootloader.bootDrive
    client,                 \* self.client / self.blivetgui
    last,                   \* what the most recent callback did
    clicks,                 \* on_back_clicked invocations since the last refresh
    edited,                 \* the widget changed the playground since the last back click
    cancelled,              \* a summary dialog was cancelled since the last refresh
    at_refresh,             \* self.storage, self._error and the info bar when refresh last ran
    init_pc                 \* how far initialize() has come

vars == <<screen, storage, storage_playground, aliased, error, back_already_clicked,
          errors, warnings, info_bar, bootDrive, client, last, clicks, edited,
          cancelled, at_refresh, init_pc>>

\* ---------------------------------------------------------------- bounds
MaxActions == 2
MaxClicks == 2

\* ---------------------------------------------------------------- values
None == <<>>
Some(v) == <<v>>

NL == "\n"
EmptyStr == <<>>

Fields == {"devices", "actions", "hidden", "names", "roots"}
Devices == {"sda1", "sdb1"}

\* what set_up_bootloader can do: return (None) or raise BootLoaderError(msg)
BootLoaderOutcomes ==
    {None, Some(EmptyStr), Some(<<"b", NL, "c">>)}

\* what the storage check can find: lists of messages
FoundErrors == {<<>>, << <<"e">> >>}
FoundWarnings == {<<>>, << <<"w">> >>}

\* what ActionSummaryDialog.run can return: 1 is confirm, anything else is not
DialogRcs == {0, 1, 2}

InitialStorage ==
    [devices |-> {"sda1"}, actions |-> <<>>, hidden |-> {},
     names |-> {"sda1"}, roots |-> {"sda1"}]

NoAlias == [f \in Fields |-> FALSE]
AllAlias == [f \in Fields |-> TRUE]

NoCall == [op |-> "none", first |-> FALSE, checkRan |-> FALSE, checkRet |-> FALSE,
           found |-> FALSE, raised |-> None, dialogShown |-> FALSE,
           dialogActions |-> <<>>, rc |-> 0, navigated |-> FALSE, details |-> None,
           crashed |-> FALSE]

Call(op) == [NoCall EXCEPT !.op = op]

\* ---------------------------------------------------------------- strings
RECURSIVE Split(_)
\* str.split("\n")
Split(s) ==
    IF s = <<>> THEN << EmptyStr >>
    ELSE IF Head(s) = NL THEN << EmptyStr >> \o Split(Tail(s))
    ELSE LET r == Split(Tail(s)) IN << <<Head(s)>> \o Head(r) >> \o Tail(r)

RECURSIVE Join(_)
\* "\n".join(list)
Join(l) ==
    IF l = <<>> THEN EmptyStr
    ELSE IF Len(l) = 1 THEN l[1]
    ELSE l[1] \o <<NL>> \o Join(Tail(l))

\* truth value of a Python list or string: non-empty
Truthy(x) == x # <<>>

\* ---------------------------------------------------------------- the action list
Action(type, dev) == [type |-> type, dev |-> dev]

RemoveAt(s, i) == SubSeq(s, 1, i - 1) \o SubSeq(s, i + 1, Len(s))

\* the places of a create action that a later destroy of the same device obsoletes
Obsoleted(acts) ==
    {i \in 1..Len(acts) :
        /\ acts[i].type = "create"
        /\ \E j \in (i + 1)..Len(acts) : acts[j] = Action("destroy", acts[i].dev)}

Min(S) == CHOOSE x \in S : \A y \in S : x <= y

RECURSIVE Prune(_)
\* devicetree.actions.prune(): a device created and destroyed again leaves no action
Prune(acts) ==
    IF Obsoleted(acts) = {} THEN acts
    ELSE LET i == Min(Obsoleted(acts))
             j == Min({k \in (i + 1)..Len(acts) : acts[k] = Action("destroy", acts[i].dev)})
         IN Prune(RemoveAt(RemoveAt(acts, j), i))

IsDestroy(a) == a.type = "destroy"
IsCreate(a) == a.type = "create"

\* the list is left in the order the actions were registered
SortNone(acts) == acts

\* devicetree.actions.sort(): destroy actions come before create actions
Sort(acts) == SelectSeq(acts, IsDestroy) \o SelectSeq(acts, IsCreate)

\* devicetree.actions.find() without arguments: every registered action
Find(acts) == acts

\* ---------------------------------------------------------------- storage
\* a copy that shares every attribute's object with the original
CopyShallow(st) == [model |-> st, aliased |-> AllAlias]

\* Blivet.copy(): a deep copy, no object shared with the original
Copy(st) == [model |-> st, aliased |-> NoAlias]

\* the five assignments of _do_check: self.storage's attributes become the playground's
Overwrite(st, pg) ==
    [model |-> [st EXCEPT !.devices = pg.devices,
                          !.actions = pg.actions,
                          !.hidden = pg.hidden,
                          !.names = pg.names,
                          !.roots = pg.roots],
     aliased |-> AllAlias]

\* StorageChecker.checkStorage: the messages the check finds join the lists
CheckStorage(errs, warns, foundErrors, foundWarnings) ==
    [errors |-> errs \o foundErrors, warnings |-> warns \o foundWarnings]

\* the info bar after the two set_warning branches of _do_check
InfoBarFor(errs, warns) ==
    IF Truthy(errs) THEN "error"
    ELSE IF Truthy(warns) THEN "warning"
    ELSE "none"

\* return self._error == ""
CheckPassed(err) == err = EmptyStr

\* _do_check, on the storage st, the playground pg and what the calls it makes do
DoCheck(st, pg, drive, bl, foundErrors, foundWarnings) ==
    LET over == Overwrite(st, pg)
        errs1 == IF bl # None THEN Split(bl[1]) ELSE <<>>
        drive1 == IF bl # None THEN "" ELSE drive
        chk == CheckStorage(errs1, <<>>, foundErrors, foundWarnings)
        err == Join(chk.errors \o chk.warnings)
    IN [storage |-> over.model, aliased |-> over.aliased,
        errors |-> chk.errors, warnings |-> chk.warnings,
        info_bar |-> InfoBarFor(chk.errors, chk.warnings),
        error |-> Some(err), bootDrive |-> drive1, ret |-> CheckPassed(err)]

\* the check runs on every click
FirstClickAlways(clicked) == TRUE

\* if not self._back_already_clicked
FirstClick(clicked) == ~clicked

\* the flag is never set
BackAlreadyClickedStale(clicked) == clicked

\* self._back_already_clicked after the if: set on the first click
BackAlreadyClickedAfter(clicked) == IF FirstClick(clicked) THEN TRUE ELSE clicked

\* on_back_clicked without its clear_errors() call
ClearErrorsKeep(err, bar) == [error |-> err, info_bar |-> bar]

\* self.clear_errors() at the top of on_back_clicked: _error and the info bar after it
ClearErrors(err, bar) == [error |-> None, info_bar |-> "none"]

\* if not self._error: return
NoDetails(err) == err = None \/ err[1] = EmptyStr

\* only a zero return code stays on the spoke
ConfirmedNonZero(rc) == rc # 0

\* if rc != 1: return
Confirmed(rc) == rc = 1

\* ---------------------------------------------------------------- specification
Init ==
    /\ screen = "constructed"
    /\ storage = InitialStorage
    /\ storage_playground = None
    /\ aliased = NoAlias
    /\ error = None
    /\ back_already_clicked = FALSE
    /\ errors = <<>>
    /\ warnings = <<>>
    /\ info_bar = "none"
    /\ bootDrive = "sda"
    /\ client = "none"
    /\ last = NoCall
    /\ clicks = 0
    /\ edited = FALSE
    /\ cancelled = FALSE
    /\ at_refresh = [storage |-> InitialStorage, error |-> None, info_bar |-> "none"]
    /\ init_pc = "new"

\* initialize(): called once after the instance is created
Initialize ==
    /\ screen = "constructed"
    /\ screen' = "hub"
    /\ storage_playground' = None
    /\ client' = "created"
    /\ init_pc' = "done"
    /\ last' = Call("initialize")
    /\ UNCHANGED <<storage, aliased, error, back_already_clicked, errors, warnings,
                   info_bar, bootDrive, clicks, edited, cancelled, at_refresh>>

\* refresh(): called every time the spoke is displayed
Refresh ==
    /\ screen = "hub"
    /\ client # "none"
    /\ init_pc = "done"
    /\ screen' = "spoke"
    /\ back_already_clicked' = FALSE
    /\ LET c == Copy(storage)
       IN /\ storage_playground' = Some(c.model)
          /\ aliased' = c.aliased
    /\ client' = "initialized"
    /\ last' = Call("refresh")
    /\ clicks' = 0
    /\ edited' = FALSE
    /\ cancelled' = FALSE
    /\ at_refresh' = [storage |-> storage, error |-> error, info_bar |-> info_bar]
    /\ UNCHANGED <<storage, error, errors, warnings, info_bar, bootDrive, init_pc>>

\* the playground after the widget registers a change; lists are either changed in
\* place (seen through every reference to them) or replaced by new lists
EditPlayground(npg, inplace) ==
    LET pg == storage_playground[1]
        kept == [f \in Fields |->
                    aliased[f] /\ (f = "actions" \/ inplace \/ npg[f] = pg[f])]
    IN /\ storage_playground' = Some(npg)
       /\ storage' = [f \in Fields |-> IF kept[f] THEN npg[f] ELSE storage[f]]
       /\ aliased' = kept
       /\ edited' = TRUE
       /\ last' = Call("edit")
       /\ UNCHANGED <<screen, error, back_already_clicked, errors, warnings, info_bar,
                      bootDrive, client, clicks, cancelled, at_refresh, init_pc>>

\* the widget adds a device to the playground
AddDevice ==
    /\ screen = "spoke"
    /\ \E d \in Devices, inplace \in BOOLEAN :
        LET pg == storage_playground[1]
        IN /\ d \notin pg.devices
           /\ Len(pg.actions) < MaxActions
           /\ EditPlayground([pg EXCEPT !.devices = @ \cup {d},
                                        !.names = @ \cup {d},
                                        !.actions = Append(@, Action("create", d))],
                             inplace)

\* the widget removes a device from the playground
RemoveDevice ==
    /\ screen = "spoke"
    /\ \E d \in Devices, inplace \in BOOLEAN :
        LET pg == storage_playground[1]
        IN /\ d \in pg.devices
           /\ Len(pg.actions) < MaxActions
           /\ EditPlayground([pg EXCEPT !.devices = @ \ {d},
                                        !.names = @ \ {d},
                                        !.roots = @ \ {d},
                                        !.actions = Append(@, Action("destroy", d))],
                             inplace)

\* on_back_clicked(button)
OnBackClicked ==
    /\ screen = "spoke"
    /\ clicks < MaxClicks
    /\ \E bl \in BootLoaderOutcomes, fe \in FoundErrors, fw \in FoundWarnings,
          rc \in DialogRcs :
        LET cleared == ClearErrors(error, info_bar)
            pg0 == storage_playground[1]
            pg == [pg0 EXCEPT !.actions = Sort(Prune(@))]
            st == IF aliased.actions THEN [storage EXCEPT !.actions = pg.actions]
                  ELSE storage
            first == FirstClick(back_already_clicked)
            stopped == first /\ cleared.error # None
            runs == first /\ ~stopped
            chk == DoCheck(st, pg, bootDrive, bl, fe, fw)
            proceed == ~stopped /\ (runs => chk.ret)
            shown == proceed /\ Len(Find(pg.actions)) > 0
            nav == proceed /\ (shown => Confirmed(rc))
        IN \* set_up_bootloader and the check act only when _do_check runs, the
           \* dialog only when it is shown
           /\ runs \/ (bl = None /\ fe = <<>> /\ fw = <<>>)
           /\ shown \/ rc = 1
           /\ storage_playground' = Some(pg)
           /\ back_already_clicked' = BackAlreadyClickedAfter(back_already_clicked)
           /\ storage' = IF runs THEN chk.storage ELSE st
           /\ aliased' = IF runs THEN chk.aliased ELSE aliased
           /\ error' = IF runs THEN chk.error ELSE cleared.error
           /\ info_bar' = IF runs THEN chk.info_bar ELSE cleared.info_bar
           /\ errors' = IF runs THEN chk.errors ELSE errors
           /\ warnings' = IF runs THEN chk.warnings ELSE warnings
           /\ bootDrive' = IF runs THEN chk.bootDrive ELSE bootDrive
           /\ screen' = IF nav THEN "leaving" ELSE "spoke"
           /\ last' = [NoCall EXCEPT
                         !.op = "back",
                         !.first = first,
                         !.checkRan = runs,
                         !.checkRet = runs /\ chk.ret,
                         !.found = runs /\ (Truthy(chk.errors) \/ Truthy(chk.warnings)),
                         !.raised = IF runs THEN bl ELSE None,
                         !.dialogShown = shown,
                         !.dialogActions = IF shown THEN Find(pg.actions) ELSE <<>>,
                         !.rc = IF shown THEN rc ELSE 0,
                         !.navigated = nav]
           /\ clicks' = clicks + 1
           /\ edited' = FALSE
           /\ cancelled' = (cancelled \/ (shown /\ ~Confirmed(rc)))
           /\ UNCHANGED <<client, at_refresh, init_pc>>

\* on_info_bar_clicked(*args)
OnInfoBarClicked ==
    /\ screen = "spoke"
    /\ info_bar # "none"
    /\ last' = [Call("info") EXCEPT
                  !.details = IF NoDetails(error) THEN None ELSE error]
    /\ UNCHANGED <<screen, storage, storage_playground, aliased, error,
                   back_already_clicked, errors, warnings, info_bar, bootDrive, client,
                   clicks, edited, cancelled, at_refresh, init_pc>>

\* apply(): called when the spoke is left
Apply ==
    /\ screen = "leaving"
    /\ screen' = "applied"
    /\ last' = Call("apply")
    /\ UNCHANGED <<storage, storage_playground, aliased, error, back_already_clicked,
                   errors, warnings, info_bar, bootDrive, client, clicks, edited,
                   cancelled, at_refresh, init_pc>>

\* execute(): called when the spoke is left
Execute ==
    /\ screen = "applied"
    /\ screen' = "hub"
    /\ last' = Call("execute")
    /\ UNCHANGED <<storage, storage_playground, aliased, error, back_already_clicked,
                   errors, warnings, info_bar, bootDrive, client, clicks, edited,
                   cancelled, at_refresh, init_pc>>

Next ==
    \/ Initialize
    \/ Refresh
    \/ AddDevice
    \/ RemoveDevice
    \/ OnBackClicked
    \/ OnInfoBarClicked
    \/ Apply
    \/ Execute

Spec == Init /\ [][Next]_vars

\* ---------------------------------------------------------------- initialize in a thread
\* initialize() is started in a thread of its own: NormalSpoke.initialize(self)
InitializeThread ==
    /\ screen = "constructed"
    /\ init_pc = "new"
    /\ screen' = "hub"
    /\ init_pc' = "started"
    /\ last' = Call("initialize")
    /\ UNCHANGED <<storage, storage_playground, aliased, error, back_already_clicked,
                   errors, warnings, info_bar, bootDrive, client, clicks, edited,
                   cancelled, at_refresh>>

\* self._storage_playground = None
InitResetPlayground ==
    /\ init_pc = "started"
    /\ init_pc' = "reset"
    /\ storage_playground' = None
    /\ UNCHANGED <<screen, storage, aliased, error, back_already_clicked, errors,
                   warnings, info_bar, bootDrive, client, last, clicks, edited,
                   cancelled, at_refresh>>

\* self.client = osinstall.BlivetGUIAnacondaClient()
InitCreateClient ==
    /\ init_pc = "reset"
    /\ init_pc' = "client"
    /\ client' = "client"
    /\ UNCHANGED <<screen, storage, storage_playground, aliased, error,
                   back_already_clicked, errors, warnings, info_bar, bootDrive, last,
                   clicks, edited, cancelled, at_refresh>>

\* self.blivetgui = osinstall.BlivetGUIAnaconda(self.client, self, box)
InitCreateWidget ==
    /\ init_pc = "client"
    /\ init_pc' = "done"
    /\ client' = "created"
    /\ UNCHANGED <<screen, storage, storage_playground, aliased, error,
                   back_already_clicked, errors, warnings, info_bar, bootDrive, last,
                   clicks, edited, cancelled, at_refresh>>

\* refresh() while initialize() has not finished: the flag and the playground are
\* set, then self.client or self.blivetgui is missing and AttributeError is raised
RefreshEarly ==
    /\ screen = "hub"
    /\ init_pc \in {"started", "reset", "client"}
    /\ back_already_clicked' = FALSE
    /\ LET c == Copy(storage)
       IN /\ storage_playground' = Some(c.model)
          /\ aliased' = c.aliased
    /\ last' = [Call("refresh") EXCEPT !.crashed = TRUE]
    /\ clicks' = 0
    /\ edited' = FALSE
    /\ cancelled' = FALSE
    /\ at_refresh' = [storage |-> storage, error |-> error, info_bar |-> info_bar]
    /\ UNCHANGED <<screen, storage, error, errors, warnings, info_bar, bootDrive,
                   client, init_pc>>

NextThreaded ==
    \/ InitializeThread
    \/ InitResetPlayground
    \/ InitCreateClient
    \/ InitCreateWidget
    \/ RefreshEarly
    \/ Refresh
    \/ AddDevice
    \/ RemoveDevice
    \/ OnBackClicked
    \/ OnInfoBarClicked
    \/ Apply
    \/ Execute

SpecThreaded == Init /\ [][NextThreaded]_vars

\* ---------------------------------------------------------------- properties
Playground == storage_playground[1]

\* a step that is one invocation of on_back_clicked
BackClickStep == clicks' = clicks + 1

IsPrefix(p, s) == Len(p) <= Len(s) /\ SubSeq(s, 1, Len(p)) = p

\* C1 (as stated): a back click that ends with Cancel in the summary dialog leaves
\* the real storage model as it was before that click.
C1_CancelLeavesStorage ==
    [][(BackClickStep /\ last'.dialogShown /\ ~Confirmed(last'.rc))
          => storage' = storage]_vars

\* C1 (amended): until the first back click after a refresh, edits made in the
\* playground do not affect the real storage model: it is as it was at the refresh
\* and shares no object with the playground.
C1_UntouchedBeforeFirstClick ==
    (screen = "spoke" /\ ~back_already_clicked)
        => (storage = at_refresh.storage /\ aliased = NoAlias)

C1_Witness ==
    /\ screen = "spoke"
    /\ ~back_already_clicked
    /\ edited
    /\ Playground # storage

\* C2: the spoke returns to the hub with a non-empty pruned action list only if the
\* summary dialog was shown during that back click and returned 1; when the dialog
\* returns anything else the click does not navigate and the user stays on the spoke.
C2_NavigateOnlyOnConfirm ==
    /\ (screen = "leaving" /\ Len(Find(Playground.actions)) > 0)
          => (last.op = "back" /\ last.dialogShown /\ last.rc = 1)
    /\ (last.op = "back" /\ last.dialogShown /\ last.rc # 1)
          => (screen = "spoke" /\ ~last.navigated)

C2_Witness ==
    /\ screen = "leaving"
    /\ Len(Find(Playground.actions)) > 0
    /\ last.dialogShown
    /\ last.rc = 1

\* C3: on the first back click after the spoke is displayed the storage check runs,
\* and the summary dialog is shown or the spoke left only if the check reported
\* neither errors nor warnings.
C3_ValidationPrecedesConfirmation ==
    (last.op = "back" /\ last.first)
        => /\ last.checkRan
           /\ last.found => (~last.dialogShown /\ ~last.navigated)

\* C4: when set_up_bootloader raises BootLoaderError during _do_check, bootDrive is
\* the empty string, the message is part of _error, _do_check returns False and the
\* click does not navigate.
C4_BootLoaderErrorBlocks ==
    (last.op = "back" /\ last.raised # None)
        => /\ bootDrive = ""
           /\ error # None
           /\ IsPrefix(last.raised[1], error[1])
           /\ ~last.checkRet
           /\ ~last.navigated

\* C5: _back_already_clicked is True exactly when on_back_clicked has been invoked
\* at least once since the most recent refresh.
C5_FlagIffClicked == back_already_clicked = (clicks > 0)

C5_Witness ==
    /\ back_already_clicked
    /\ clicks = 2
    /\ at_refresh.storage # InitialStorage

\* C6: refresh leaves a fresh copy of the current storage as the playground and a
\* cleared flag, and the first back click after any refresh runs the storage check,
\* whatever _error and info bar an earlier display left over.
C6_FirstClickAlwaysChecks ==
    /\ last.op = "refresh"
          => /\ storage_playground = Some(storage)
             /\ aliased = NoAlias
             /\ ~back_already_clicked
    /\ (last.op = "back" /\ clicks = 1) => last.checkRan

C6_Witness ==
    /\ last.op = "back"
    /\ clicks = 1
    /\ last.checkRan
    /\ at_refresh.error # None
    /\ at_refresh.info_bar # "none"

\* C7: a back click skips the storage check only if back was already clicked since
\* the spoke was displayed and the playground was not changed since that click.
C7_SkipOnlyIfUnchanged ==
    [][(BackClickStep /\ ~last'.checkRan) => (back_already_clicked /\ ~edited)]_vars

C9_CheckReturnsTrueIffClean ==
    (last.op = "back" /\ last.checkRan)
        => /\ last.checkRet = ~last.found
           /\ (info_bar # "none") = ~last.checkRet

\* C10: whenever the info bar warning is displayed, _error is a non-empty message.
C10_InfoBarHasDetails == info_bar # "none" => ~NoDetails(error)

\* C11: whenever the spoke returns to the hub (and through apply and execute) the
\* real storage model holds the final state of the playground.
C11_HubHoldsPlayground ==
    (screen \in {"leaving", "applied"} \/ (screen = "hub" /\ storage_playground # None))
        => storage = Playground

\* no create action stands before a destroy action
IsSorted(acts) ==
    \A i \in 1..Len(acts), j \in 1..Len(acts) :
        i < j => ~(IsCreate(acts[i]) /\ IsDestroy(acts[j]))

\* C12: a back click that is allowed to proceed (a first click whose check passed,
\* or any later click) shows the summary dialog exactly when the pruned action list
\* is non-empty, gives it that pruned and sorted list, and returns to the hub
\* directly when the list is empty.
C12_DialogIffActions ==
    [][(BackClickStep /\ (last'.first => last'.checkRet))
          => LET acts == Sort(Prune(Playground.actions))
             IN /\ last'.dialogShown = (Len(acts) > 0)
                /\ ~last'.dialogShown => (last'.navigated /\ screen' = "leaving")
                /\ last'.dialogShown
                      => /\ last'.dialogActions = acts
                         /\ IsSorted(last'.dialogActions)
                         /\ Obsoleted(last'.dialogActions) = {}
                         /\ last'.dialogActions = storage_playground'[1].actions]_vars

C12_Witness ==
    /\ last.op = "back"
    /\ ~last.first
    /\ ~last.dialogShown
    /\ screen = "leaving"
    /\ Playground.actions = <<>>
    /\ Playground.devices # at_refresh.storage.devices

\* C13: with initialize() running in a thread of its own, refresh only runs with the
\* client and the widget already created, and on_back_clicked and _do_check only
\* run with a playground that is not None.
C13_CallbacksRunReady ==
    /\ last.op = "refresh" => ~last.crashed
    /\ screen = "spoke" => (storage_playground # None /\ client = "initialized")

====
